---- MODULE Spec2Model ----
(***************************************************************************)
(* A model of fabfile.py: the fabric tasks connect, herd, birth, brand,    *)
(* euthanise and make_saltmaster, the process-wide fabric `env` they       *)
(* share, the local and remote cloud.profiles files, and the provider      *)
(* (compute servers and DNS records) they talk to.                         *)
(*                                                                         *)
(* A task is one action.  Inside a task the code is sequential, so each    *)
(* python function is an operator from a "world" record (the provider, the *)
(* files and env) to the world it leaves behind; an uncaught exception is  *)
(* the field err, and it ends the fab process (pc = "crashed").  The only  *)
(* place where the provider moves while a task runs is the polling loop of *)
(* euthanise(wait=True), which is therefore a pc of its own.               *)
(***************************************************************************)
EXTENDS Integers, Sequences, FiniteSets, TLC

VARIABLES
    servers,        \* provider: server id -> [name, addr, pass, ready, deleting, file]
    dns,            \* provider: sequence of DNS records of the domain DOMAIN
    localFile,      \* ./cloud.profiles
    boxen,          \* env.boxen
    box,            \* env.box
    box_public_ips, \* env.box_public_ips[4]
    hosts,          \* env.hosts[0]
    passwords,      \* env.passwords
    password,       \* env.password
    pwChanges,      \* per address: change_password calls issued in this fab process
    pc,             \* "idle", "euth_wait", "ms_wait", "crashed"
    ntasks,         \* tasks of the fab command line run so far
    last            \* what the last task was given, did and returned

vars == <<servers, dns, localFile, boxen, box, box_public_ips,
          hosts, passwords, password, pwChanges, pc, ntasks, last>>

-----------------------------------------------------------------------------
(* Bounds *)

NumAddrs == 2

MaxTasks == 3

MaxRecords == 3

MaxAliases == 2

-----------------------------------------------------------------------------
(* Settings and provider catalogue *)

DOMAIN_NAME == "example.com"

Saltmaster == "master"

RackspaceUser == "user"

Names == {"master", "web1"}

NameOrder == <<"master", "web1">>

AliasNames == {"master", "www"}

Addrs == 1 .. NumAddrs

NoAddr == 0

NoPass == 0

NoId == 0

Images ==
    << [id |-> "img1", name |-> <<"CentOS", "6.4">>],
       [id |-> "img2", name |-> <<"Ubuntu", "12.04", "LTS">>] >>

Flavors ==
    << [id |-> "2", name |-> "512MB", ram |-> 512, disk |-> 20],
       [id |-> "5", name |-> "4GB", ram |-> 4096, disk |-> 160] >>

SizeHints == {160, 999}

NoBox == [id |-> NoId, name |-> "", addr |-> NoAddr, adminPass |-> NoPass]

NoFile == [exists |-> FALSE, lines |-> <<>>]

EmptyFile == [exists |-> TRUE, lines |-> <<>>]

FlowEmpty == [key |-> "{}", provider |-> <<>>, size |-> "", image |-> <<>>]

-----------------------------------------------------------------------------
(* Pure helpers *)

HostString(addr) == <<"root", addr, 22>>

Fqdn(name) == <<name, DOMAIN_NAME>>

Contains(s, p) ==
    \E i \in 1 .. (Len(s) - Len(p) + 1) : SubSeq(s, i, i + Len(p) - 1) = p

ImageMatches == {i \in 1 .. Len(Images) : Contains(Images[i].name, <<"Ubuntu", "12.04">>)}

FirstImage ==
    IF ImageMatches = {} THEN 0
    ELSE CHOOSE i \in ImageMatches : \A j \in ImageMatches : i <= j

FlavourMatches(size) ==
    {i \in 1 .. Len(Flavors) : Flavors[i].ram = size \/ Flavors[i].disk = size}

FirstFlavour(size) ==
    LET hits == FlavourMatches(size)
    IN  IF hits = {} THEN 0 ELSE CHOOSE i \in hits : \A j \in hits : i <= j

(* yaml.load(open('cloud.profiles')) or {} : None (empty text) and "{}" are
   both the empty mapping *)
Entries(lines) == {i \in 1 .. Len(lines) : lines[i].key # "{}"}

yaml_load(file) ==
    [k \in {file.lines[i].key : i \in Entries(file.lines)} |->
        LET i == CHOOSE j \in Entries(file.lines) :
                    /\ file.lines[j].key = k
                    /\ \A h \in Entries(file.lines) :
                          file.lines[h].key = k => h <= j
        IN  [provider |-> file.lines[i].provider,
             size |-> file.lines[i].size,
             image |-> file.lines[i].image]]

(* yaml.dump(profiles): keys sorted, "{}" for the empty mapping *)
yaml_dump(profiles) ==
    IF DOMAIN profiles = {} THEN <<FlowEmpty>>
    ELSE LET keys == SelectSeq(NameOrder, LAMBDA k : k \in DOMAIN profiles)
         IN  [i \in 1 .. Len(keys) |->
                 [key |-> keys[i],
                  provider |-> profiles[keys[i]].provider,
                  size |-> profiles[keys[i]].size,
                  image |-> profiles[keys[i]].image]]

Put(f, k, v) == [x \in DOMAIN f \cup {k} |-> IF x = k THEN v ELSE f[x]]

Drop(f, k) == [x \in DOMAIN f \ {k} |-> f[x]]

(* cs.list() turned into a dict by name *)
Listing(srv) ==
    [n \in {srv[i].name : i \in DOMAIN srv} |->
        LET i == CHOOSE j \in DOMAIN srv : srv[j].name = n
        IN  [id |-> i, name |-> n,
             addr |-> IF srv[i].ready THEN srv[i].addr ELSE NoAddr,
             adminPass |-> NoPass]]

FreeAddrs(srv) == Addrs \ {srv[i].addr : i \in DOMAIN srv}

-----------------------------------------------------------------------------
(* The world a task runs in *)

World ==
    [servers |-> servers, dns |-> dns,
     localFile |-> localFile, boxen |-> boxen, box |-> box,
     box_public_ips |-> box_public_ips, hosts |-> hosts,
     passwords |-> passwords, password |-> password, pwChanges |-> pwChanges,
     calls |-> <<>>, err |-> "none", ret |-> "None", capped |-> FALSE,
     pulled |-> FALSE, known |-> FALSE, cached |-> FALSE]

(* one statement after another: the value of v, then F of it *)
Bind(v, F(_)) == CHOOSE r \in {F(x) : x \in {v}} : TRUE

(* the same, unless v raised *)
Then(v, F(_)) ==
    CHOOSE r \in {IF x.err # "none" THEN x ELSE F(x) : x \in {v}} : TRUE

(* ids and secrets are only ever compared for equality: a new one is the
   least value that nothing in the world still holds *)
IdsHeld(w) ==
    DOMAIN w.servers \cup {w.boxen[n].id : n \in DOMAIN w.boxen} \cup {w.box.id}

FreshId(w) == CHOOSE i \in 1 .. (Cardinality(IdsHeld(w)) + 1) : i \notin IdsHeld(w)

SecretsHeld(w) ==
    {w.servers[i].pass : i \in DOMAIN w.servers}
        \cup {w.passwords[h] : h \in DOMAIN w.passwords}
        \cup {w.password, w.box.adminPass}

FreshSecret(w) ==
    CHOOSE p \in 1 .. (Cardinality(SecretsHeld(w)) + 1) : p \notin SecretsHeld(w)

Raise(w, e) == [w EXCEPT !.err = e]

Call(w, c, n, t) == [w EXCEPT !.calls = Append(@, [c |-> c, n |-> n, t |-> t])]

refresh_boxen(w) ==
    [w EXCEPT !.boxen = Listing(w.servers),
              !.calls = Append(@, [c |-> "list", n |-> "", t |-> ""])]

(* the cache is never consulted *)
HostNeverCached(w, host) == FALSE

HostCached(w, host) == host \in DOMAIN w.passwords

change_password(w, pw) ==
    IF w.box.id \notin DOMAIN w.servers
    THEN [w EXCEPT !.err = "NotFound",
                   !.calls = Append(@, [c |-> "change_password", n |-> w.box.name,
                                        t |-> "rejected"])]
    ELSE [w EXCEPT !.servers[w.box.id].pass = pw,
                   !.pwChanges[w.box.addr] = @ + 1,
                   !.calls = Append(@, [c |-> "change_password", n |-> w.box.name,
                                        t |-> ""])]

(* herd from `ips = env.box.addresses['public']` on *)
herd_bind(w) ==
    IF w.box.addr = NoAddr THEN Raise(w, "KeyError")
    ELSE IF ~HostCached(w, HostString(w.box.addr))
    THEN IF w.box.adminPass # NoPass
         THEN [w EXCEPT !.box_public_ips = w.box.addr,
                        !.hosts = <<HostString(w.box.addr)>>,
                        !.cached = FALSE,
                        !.passwords = Put(@, HostString(w.box.addr), w.box.adminPass)]
         ELSE Then(change_password(
                      [w EXCEPT !.box_public_ips = w.box.addr,
                                !.hosts = <<HostString(w.box.addr)>>,
                                !.cached = FALSE],
                      FreshSecret(w)),
                   LAMBDA x : [x EXCEPT !.passwords =
                                  Put(@, HostString(x.box.addr),
                                      x.servers[x.box.id].pass)])
    ELSE [w EXCEPT !.box_public_ips = w.box.addr,
                   !.hosts = <<HostString(w.box.addr)>>,
                   !.cached = TRUE,
                   !.password = w.passwords[HostString(w.box.addr)]]

herd_select(w, name, newborn) ==
    IF newborn THEN w
    ELSE IF name \notin DOMAIN w.boxen THEN Raise(w, "KeyError")
    ELSE [w EXCEPT !.box = w.boxen[name]]

herd(w, name, newborn) ==
    Then(Bind(refresh_boxen(w), LAMBDA x : herd_select(x, name, newborn)),
         herd_bind)

-----------------------------------------------------------------------------
(* brand *)

RecordsByName(d) ==
    [n \in {d[i].name : i \in 1 .. Len(d)} |->
        LET i == CHOOSE j \in 1 .. Len(d) :
                    d[j].name = n /\ \A h \in 1 .. Len(d) : d[h].name = n => h <= j
        IN  [id |-> d[i].id, type |-> d[i].type]]

NewRecordId(d) ==
    1 + (IF Len(d) = 0 THEN 0
         ELSE CHOOSE m \in {d[i].id : i \in 1 .. Len(d)} :
                  \A i \in 1 .. Len(d) : d[i].id <= m)

record_delete(w, id, name) ==
    [w EXCEPT !.dns = SelectSeq(@, LAMBDA r : r.id # id),
              !.calls = Append(@, [c |-> "dns.delete", n |-> name[1], t |-> ""])]

record_update(w, id, name, data) ==
    [w EXCEPT !.dns = [i \in 1 .. Len(@) |->
                          IF @[i].id = id THEN [@[i] EXCEPT !.data = data] ELSE @[i]],
              !.calls = Append(@, [c |-> "dns.update", n |-> name[1], t |-> ""])]

(* domain.add_record: a provider that refuses a second record of a name
   (strict) raises, one that does not appends it *)
add_record(w, type, name, data, strict) ==
    IF strict /\ \E i \in 1 .. Len(w.dns) : w.dns[i].name = name
    THEN [w EXCEPT !.err = "DnsError",
                   !.calls = Append(@, [c |-> "dns.add", n |-> name[1],
                                        t |-> "rejected"])]
    ELSE [w EXCEPT !.dns = Append(@, [id |-> NewRecordId(w.dns), type |-> type,
                                      name |-> name, data |-> data]),
                   !.calls = Append(@, [c |-> "dns.add", n |-> name[1], t |-> type])]

(* _manage_name on st = [w, records], records being brand's dict *)
manage_name(st, type, name, data, strict) ==
    IF st.w.err # "none" THEN st
    ELSE IF name \in DOMAIN st.records
    THEN IF st.records[name].type # type
         THEN [w |-> Bind(record_delete(st.w, st.records[name].id, name),
                          LAMBDA x : add_record(x, type, name, data, strict)),
               records |-> Drop(st.records, name)]
         ELSE [st EXCEPT !.w = record_update(st.w, st.records[name].id, name, data)]
    ELSE [st EXCEPT !.w = add_record(st.w, type, name, data, strict)]

RECURSIVE manage_aliases(_, _, _, _)
manage_aliases(st, aliases, record_name, strict) ==
    IF aliases = <<>> THEN st
    ELSE Bind(manage_name(st, "CNAME", Fqdn(Head(aliases)),
                          [ip |-> NoAddr, target |-> record_name], strict),
              LAMBDA x : manage_aliases(x, Tail(aliases), record_name, strict))

brand(w, aliases, strict) ==
    IF w.box = NoBox THEN Raise(w, "abort")
    ELSE IF w.box_public_ips = NoAddr
    THEN Raise(Call(w, "dns.list", "", ""), "AttributeError")
    ELSE Bind(Bind(manage_name([w |-> Call(w, "dns.list", "", ""),
                                records |-> RecordsByName(w.dns)],
                               "A", Fqdn(w.box.name),
                               [ip |-> w.box_public_ips, target |-> <<>>], strict),
                   LAMBDA x : manage_aliases(x, aliases, Fqdn(w.box.name), strict)),
              LAMBDA y : y.w)

-----------------------------------------------------------------------------
(* birth *)

ServerNamed(srv, name) == {i \in DOMAIN srv : srv[i].name = name}

NewServer(name, addr, pw, ready) ==
    [name |-> name, addr |-> addr, pass |-> pw, ready |-> ready,
     deleting |-> FALSE, file |-> NoFile]

(* cs.servers.create(name, image, flavour): the response carries the id and
   the adminPass, and no address yet *)
create(w, name, addr) ==
    IF ServerNamed(w.servers, name) # {}
    THEN Raise(Call(w, "create", name, "rejected"), "ProviderError")
    ELSE [w EXCEPT !.servers = Put(@, FreshId(w),
                                   NewServer(name, addr, FreshSecret(w), FALSE)),
                   !.capped = @ \/ addr \notin FreeAddrs(w.servers),
                   !.box = [id |-> FreshId(w), name |-> name, addr |-> NoAddr,
                            adminPass |-> FreshSecret(w)],
                   !.calls = Append(@, [c |-> "create", n |-> name, t |-> ""])]

(* pyrax.utils.wait_for_build(env.box): reloads env.box in place until ACTIVE *)
wait_for_build(w) ==
    [w EXCEPT !.servers[w.box.id].ready = TRUE,
              !.box.addr = w.servers[w.box.id].addr,
              !.calls = Append(@, [c |-> "wait_for_build", n |-> w.box.name, t |-> ""])]

(* run("salt-cloud -p name name") on the bound control node: it brings the
   server up and returns when it is reachable; a name that exists is left *)
salt_cloud(w, name, addr) ==
    IF ServerNamed(w.servers, name) # {}
    THEN Call(w, "salt-cloud", name, "exists")
    ELSE [w EXCEPT !.servers = Put(@, FreshId(w),
                                   NewServer(name, addr, FreshSecret(w), TRUE)),
                   !.capped = @ \/ addr \notin FreeAddrs(w.servers),
                   !.calls = Append(@, [c |-> "salt-cloud", n |-> name, t |-> ""])]

(* get('/etc/salt/cloud.profiles', 'cloud.profiles') from the bound node *)
get_profiles(w) ==
    IF w.box.id \notin DOMAIN w.servers \/ ~w.servers[w.box.id].file.exists
    THEN Raise(Call(w, "get", w.box.name, "rejected"), "abort")
    ELSE [w EXCEPT !.localFile = w.servers[w.box.id].file,
                   !.calls = Append(@, [c |-> "get", n |-> w.box.name, t |-> ""])]

(* put('cloud.profiles', '/etc/salt/cloud.profiles') to the bound node *)
put_profiles(w) ==
    IF w.box.id \notin DOMAIN w.servers \/ ~w.localFile.exists
    THEN Raise(Call(w, "put", w.box.name, "rejected"), "abort")
    ELSE [w EXCEPT !.servers[w.box.id].file = w.localFile,
                   !.calls = Append(@, [c |-> "put", n |-> w.box.name, t |-> ""])]

(* the direct call whatever the flag and the cache say *)
DirectCreateAlways(w, no_profile) == TRUE

(* `if no_profile or not saltmaster in env.boxen` *)
DirectCreate(w, no_profile) == no_profile \/ Saltmaster \notin DOMAIN w.boxen

(* birth, `if name in profiles` taken *)
birth_declarative(w, name, addr, strict) ==
    Then(Then(Then(salt_cloud(w, name, addr),
                   LAMBDA x : herd(x, name, FALSE)),
              LAMBDA x : brand(x, <<>>, strict)),
         LAMBDA x : [x EXCEPT !.ret = "True"])

(* birth from `profiles[name] = ...` to the write of cloud.profiles *)
write_profile(w, profiles, name, size) ==
    [w EXCEPT !.localFile =
                 [exists |-> TRUE,
                  lines |-> yaml_dump(
                      Put(profiles, name,
                          [provider |-> <<"rackspace-conf", RackspaceUser>>,
                           size |-> Flavors[FirstFlavour(size)].name,
                           image |-> Images[FirstImage].name]))],
              !.calls = @ \o <<[c |-> "match", n |-> name,
                                t |-> Flavors[FirstFlavour(size)].name],
                               [c |-> "write", n |-> name, t |-> ""]>>]

(* birth from `if no_profile or not saltmaster in env.boxen` to the end of
   its branches *)
make_box(w, name, wait, no_profile, addr) ==
    IF DirectCreate(w, no_profile)
    THEN IF wait
         THEN Then(Then(create(w, name, addr), wait_for_build),
                   LAMBDA x : herd(x, name, TRUE))
         ELSE create(w, name, addr)
    ELSE Then(salt_cloud(w, name, addr), LAMBDA x : herd(x, name, FALSE))

(* birth from `cs = pyrax.cloudservers` on *)
birth_adhoc(w, profiles, name, size, wait, no_profile, addr, strict) ==
    IF FirstImage = 0 \/ FirstFlavour(size) = 0
    THEN Raise(Call(w, "match", name, "none"), "IndexError")
    ELSE Then(Then(Then(write_profile(w, profiles, name, size),
                        LAMBDA x : IF Saltmaster \in DOMAIN x.boxen
                                   THEN put_profiles(x) ELSE x),
                   LAMBDA x : make_box(x, name, wait, no_profile, addr)),
              LAMBDA x : brand(x, <<>>, strict))

(* birth after the pull of cloud.profiles from the control node *)
birth_pulled(w, name, size, wait, no_profile, addr, strict) ==
    IF name \in DOMAIN yaml_load(w.localFile)
    THEN birth_declarative([w EXCEPT !.pulled = TRUE, !.known = TRUE],
                           name, addr, strict)
    ELSE birth_adhoc([w EXCEPT !.pulled = TRUE, !.known = FALSE],
                     yaml_load(w.localFile), name, size, wait, no_profile,
                     addr, strict)

birth(w, name, size, wait, no_profile, addr, strict) ==
    IF ~w.localFile.exists THEN Raise(Call(w, "load", name, "missing"), "IOError")
    ELSE IF Saltmaster \in DOMAIN w.boxen
    THEN Then(Then(herd(Call(w, "load", name, ""), Saltmaster, FALSE),
                   get_profiles),
              LAMBDA x : birth_pulled(x, name, size, wait, no_profile, addr, strict))
    ELSE Bind(Call(w, "load", name, ""),
              LAMBDA x : birth_adhoc(x, yaml_load(x.localFile), name, size, wait,
                                     no_profile, addr, strict))

-----------------------------------------------------------------------------
(* euthanise, make_saltmaster *)

(* the answer is not looked at *)
ConfirmUnasked(answer) == TRUE

(* confirm(red("Really delete server ..."), default=False) *)
Confirm(answer) == answer

(* euthanise after box.delete() *)
euthanise_deleted(w, wait) ==
    IF wait
    THEN IF w.box.name \in DOMAIN w.boxen
         THEN [w EXCEPT !.ret = "polling"]
         ELSE [w EXCEPT !.ret = "True"]
    ELSE IF w.box.name \notin DOMAIN w.boxen
         THEN Raise(w, "KeyError")
         ELSE [w EXCEPT !.boxen = Drop(@, w.box.name), !.ret = "True"]

(* euthanise up to the polling loop *)
euthanise(w, confirm, wait) ==
    IF w.box = NoBox THEN Raise(w, "AttributeError")
    ELSE IF ~Confirm(confirm) THEN [w EXCEPT !.ret = "False"]
    ELSE IF w.box.id \notin DOMAIN w.servers
    THEN Raise(Call(w, "delete", w.box.name, "rejected"), "NotFound")
    ELSE Bind([w EXCEPT !.servers[w.box.id].deleting = TRUE,
                        !.calls = Append(@, [c |-> "delete", n |-> w.box.name,
                                             t |-> ""])],
              LAMBDA x : euthanise_deleted(x, wait))

(* one turn of `while name in env.boxen`; consecutive listings are logged once *)
euthanise_poll(w) ==
    [w EXCEPT !.boxen = Listing(w.servers),
              !.calls = IF Len(@) > 0 /\ @[Len(@)].c = "list" THEN @
                        ELSE Append(@, [c |-> "list", n |-> "", t |-> ""]),
              !.ret = IF w.box.name \in DOMAIN Listing(w.servers)
                      THEN "polling" ELSE "True"]

(* bootstrap(master=True), as far as the profile store goes *)
bootstrap(w) == put_profiles(w)

(* make_saltmaster after herd/euthanise: birth when asked, then bootstrap *)
make_saltmaster_rest(w, doBirth, addr, strict) ==
    Then(Then(IF doBirth
              THEN birth(w, Saltmaster, 512, TRUE, FALSE, addr, strict)
              ELSE w,
              bootstrap),
         LAMBDA x : [x EXCEPT !.ret = "None"])

(* make_saltmaster after a herd that raised nothing *)
make_saltmaster_replace(w, confirm, addr, strict) ==
    Bind(euthanise(w, confirm, TRUE),
         LAMBDA x : IF x.err # "none" \/ x.ret = "polling" THEN x
                    ELSE make_saltmaster_rest(x, x.ret = "True", addr, strict))

make_saltmaster(w, confirm, addr, strict) ==
    Bind(herd(w, Saltmaster, FALSE),
         LAMBDA x : IF x.err = "KeyError"
                    THEN make_saltmaster_rest([x EXCEPT !.err = "none"], TRUE,
                                              addr, strict)
                    ELSE IF x.err # "none" THEN x
                    ELSE make_saltmaster_replace(x, confirm, addr, strict))

-----------------------------------------------------------------------------
(* Tasks *)

AliasLists == UNION {[1 .. n -> AliasNames] : n \in 0 .. MaxAliases}

NoArgs ==
    [name |-> "", size |-> 0, wait |-> FALSE, no_profile |-> FALSE,
     confirm |-> FALSE, aliases |-> <<>>]

Report(op, args, w) ==
    [op |-> op, name |-> args.name, size |-> args.size, wait |-> args.wait,
     no_profile |-> args.no_profile, confirm |-> args.confirm,
     aliases |-> args.aliases, calls |-> w.calls,
     ret |-> IF w.err # "none" THEN "error" ELSE w.ret,
     pulled |-> w.pulled, known |-> w.known, cached |-> w.cached]

Commit(result, op, args, waitpc) ==
    \E w \in {result} :
    /\ ~w.capped
    /\ Len(w.dns) <= MaxRecords
    /\ servers' = w.servers
    /\ dns' = w.dns
    /\ localFile' = w.localFile
    /\ boxen' = w.boxen
    /\ box' = w.box
    /\ box_public_ips' = w.box_public_ips
    /\ hosts' = w.hosts
    /\ passwords' = w.passwords
    /\ password' = w.password
    /\ pwChanges' = w.pwChanges
    /\ pc' = IF w.err # "none" THEN "crashed"
             ELSE IF w.ret = "polling" THEN waitpc ELSE "idle"
    /\ last' = Report(op, args, w)

Resumed == [World EXCEPT !.calls = last.calls]

LastArgs ==
    [name |-> last.name, size |-> last.size, wait |-> last.wait,
     no_profile |-> last.no_profile, confirm |-> last.confirm,
     aliases |-> last.aliases]

ExistingMaster ==
    [name |-> Saltmaster, addr |-> 1, pass |-> 1, ready |-> TRUE,
     deleting |-> FALSE, file |-> EmptyFile]

InitialServers == {<<>>, Put(<<>>, 1, ExistingMaster)}

(* what the domain may hold before the fab process starts *)
InitialRecords ==
    { <<>>,
      <<[id |-> 1, type |-> "CNAME", name |-> Fqdn("web1"),
         data |-> [ip |-> NoAddr, target |-> Fqdn("www")]]>> }

InitialRecordsDns ==
    InitialRecords \cup
    { <<[id |-> 1, type |-> "A", name |-> Fqdn("www"),
         data |-> [ip |-> 1, target |-> <<>>]]>>,
      <<[id |-> 1, type |-> "CNAME", name |-> Fqdn("master"),
         data |-> [ip |-> NoAddr, target |-> Fqdn("www")]]>> }

InitialFiles == {NoFile, EmptyFile}

InitWith(records) ==
    /\ servers \in InitialServers
    /\ dns \in records
    /\ localFile \in InitialFiles
    /\ boxen = Listing(servers)
    /\ box = NoBox
    /\ box_public_ips = NoAddr
    /\ hosts = <<>>
    /\ passwords = <<>>
    /\ password = NoPass
    /\ pwChanges = [a \in Addrs |-> 0]
    /\ pc = "idle"
    /\ ntasks = 0
    /\ last = Report("connect", NoArgs, refresh_boxen(World))

(* the fab process after connect *)
Init == InitWith(InitialRecords)

(* the same, over more domains *)
InitDns == InitWith(InitialRecordsDns)

Herd ==
    /\ pc = "idle"
    /\ ntasks < MaxTasks
    /\ ntasks' = ntasks + 1
    /\ \E name \in Names, w \in {World} :
          Commit(herd(w, name, FALSE), "herd", [NoArgs EXCEPT !.name = name], "idle")

Birth ==
    /\ pc = "idle"
    /\ ntasks < MaxTasks
    /\ ntasks' = ntasks + 1
    /\ \E name \in Names, size \in SizeHints, wait \in BOOLEAN,
          no_profile \in BOOLEAN, addr \in Addrs, strict \in BOOLEAN,
          w \in {World} :
          Commit(birth(w, name, size, wait, no_profile, addr, strict), "birth",
                 [NoArgs EXCEPT !.name = name, !.size = size, !.wait = wait,
                                !.no_profile = no_profile], "idle")

BrandWith(lists) ==
    /\ pc = "idle"
    /\ ntasks < MaxTasks
    /\ ntasks' = ntasks + 1
    /\ \E aliases \in lists, strict \in BOOLEAN, w \in {World} :
          Commit(brand(w, aliases, strict), "brand",
                 [NoArgs EXCEPT !.name = box.name, !.aliases = aliases], "idle")

(* fab brand *)
Brand == BrandWith({<<>>})

(* fab brand:aliases *)
BrandAliases == BrandWith(AliasLists)

Euthanise ==
    /\ pc = "idle"
    /\ ntasks < MaxTasks
    /\ ntasks' = ntasks + 1
    /\ \E confirm \in BOOLEAN, wait \in BOOLEAN, w \in {World} :
          Commit(euthanise(w, confirm, wait), "euthanise",
                 [NoArgs EXCEPT !.name = box.name, !.confirm = confirm,
                                !.wait = wait], "euth_wait")

EuthanisePoll ==
    /\ UNCHANGED ntasks
    /\ pc = "euth_wait"
    /\ \E w \in {Resumed} :
          Commit(euthanise_poll(w), "euthanise", LastArgs, "euth_wait")

MakeSaltmaster ==
    /\ pc = "idle"
    /\ ntasks < MaxTasks
    /\ ntasks' = ntasks + 1
    /\ \E confirm \in BOOLEAN, addr \in Addrs, strict \in BOOLEAN, w \in {World} :
          Commit(make_saltmaster(w, confirm, addr, strict), "make_saltmaster",
                 [NoArgs EXCEPT !.name = Saltmaster, !.confirm = confirm], "ms_wait")

MakeSaltmasterPoll ==
    /\ UNCHANGED ntasks
    /\ pc = "ms_wait"
    /\ \E addr \in Addrs, strict \in BOOLEAN, w \in {Resumed} :
          Commit(Bind(euthanise_poll(w),
                      LAMBDA x : IF x.ret = "polling" THEN x
                                 ELSE make_saltmaster_rest(x, TRUE, addr, strict)),
                 "make_saltmaster", LastArgs, "ms_wait")

(* the provider finishes a build: the server turns ACTIVE and shows its address *)
ProviderBuild ==
    /\ \E i \in DOMAIN servers :
          /\ ~servers[i].ready
          /\ servers' = [servers EXCEPT ![i].ready = TRUE]
    /\ UNCHANGED <<dns, localFile, boxen, box, box_public_ips,
                   hosts, passwords, password, pwChanges, pc, ntasks, last>>

(* the provider finishes a deletion: the server leaves the listing *)
ProviderDrop ==
    /\ \E i \in DOMAIN servers :
          /\ servers[i].deleting
          /\ servers' = Drop(servers, i)
    /\ UNCHANGED <<dns, localFile, boxen, box, box_public_ips,
                   hosts, passwords, password, pwChanges, pc, ntasks, last>>

Next ==
    \/ Herd
    \/ Birth
    \/ Brand
    \/ Euthanise
    \/ EuthanisePoll
    \/ MakeSaltmaster
    \/ MakeSaltmasterPoll
    \/ ProviderBuild
    \/ ProviderDrop

Spec == Init /\ [][Next]_vars

(* a fab command line of herd and brand:aliases tasks *)
NextDns ==
    \/ Herd
    \/ BrandAliases

SpecDns == InitDns /\ [][NextDns]_vars

-----------------------------------------------------------------------------
(* Properties *)

Issued(report, c) == \E i \in 1 .. Len(report.calls) : report.calls[i].c = c

IssuedInOrder(report, c1, c2) ==
    \E i, j \in 1 .. Len(report.calls) :
        i < j /\ report.calls[i].c = c1 /\ report.calls[j].c = c2

(* a step that runs the task `op` from its start *)
Ran(op) == ntasks' = ntasks + 1 /\ last'.op = op

(* a step of a polling loop that has its task return *)
Resumes(op) ==
    /\ pc \in {"euth_wait", "ms_wait"}
    /\ pc' # pc
    /\ last'.op = op

(* C1: in birth, with the control node in the cache and `name` a key of the
   pulled profiles, salt-cloud is run (and nothing is matched or created
   directly) if and only if no_profile is false; with no_profile true
   salt-cloud is not run and the node is made by the direct creation call. *)
C1_DeclarativeIffProfileWanted ==
    (last.op = "birth" /\ last.pulled /\ last.known) =>
        /\ ~last.no_profile =>
              /\ Issued(last, "salt-cloud")
              /\ ~Issued(last, "match")
              /\ ~Issued(last, "create")
        /\ last.no_profile =>
              /\ ~Issued(last, "salt-cloud")
              /\ last.ret # "error" => Issued(last, "create")

ARecordFor(records, name, addr) ==
    \E k \in 1 .. Len(records) :
        /\ records[k].type = "A"
        /\ records[k].name = Fqdn(name)
        /\ records[k].data.ip = addr

(* C2: after every birth that completes there is an A record <name>.<DOMAIN>
   whose data is the IPv4 address of the server named `name`. *)
C2_BirthRegistersOwnAddress ==
    [][(Ran("birth") /\ last'.ret # "error") =>
          \E i \in ServerNamed(servers', last'.name) :
              ARecordFor(dns', last'.name, servers'[i].addr)]_vars

FirstOf(S) == CHOOSE i \in S : \A j \in S : i <= j

C3_Case ==
    /\ Ran("birth")
    /\ last'.pulled
    /\ ~last'.known
    /\ FlavourMatches(last'.size) # {}

C3_ProfilePersisted ==
    /\ Issued(last', "match")
    /\ IssuedInOrder(last', "write", "put")
    /\ localFile'.exists
    /\ last'.name \in DOMAIN yaml_load(localFile')
    /\ yaml_load(localFile')[last'.name].size =
           Flavors[FirstOf(FlavourMatches(last'.size))].name
    /\ yaml_load(localFile')[last'.name].image = Images[FirstOf(ImageMatches)].name
    /\ ServerNamed(servers', Saltmaster) # {}
    /\ \A m \in ServerNamed(servers', Saltmaster) : servers'[m].file = localFile'

(* C3, as claimed: in birth, with the control node in the cache and `name` no
   key of the pulled profiles, image and flavour are matched, the direct
   creation call is issued for `name`, and the new profile entry is written
   to cloud.profiles and pushed to the control node. *)
C3_AdHocAlwaysCreatesDirectly ==
    [][C3_Case => (C3_ProfilePersisted /\ Issued(last', "create"))]_vars

(* C3, amended: in that case image and flavour are matched and the new
   profile entry is written and pushed; the node is made by the direct
   creation call when no_profile is true and by salt-cloud on the control
   node when it is false. *)
C3_UnknownProfileIsRecorded ==
    [][C3_Case =>
          /\ C3_ProfilePersisted
          /\ Issued(last', "create") <=> last'.no_profile
          /\ Issued(last', "salt-cloud") <=> ~last'.no_profile]_vars

C3_Witness ==
    /\ last.op = "birth"
    /\ last.pulled
    /\ ~last.known
    /\ ~last.no_profile
    /\ last.ret = "None"
    /\ Issued(last, "salt-cloud")
    /\ last.name \in DOMAIN yaml_load(localFile)

(* C4: the load of cloud.profiles at the start of birth never fails: with the
   file missing or empty, birth goes on. *)
C4_LoadNeverFails ==
    [][(Ran("birth") /\ (~localFile.exists \/ localFile.lines = <<>>)) =>
          /\ last'.calls[1] = [c |-> "load", n |-> last'.name, t |-> ""]
          /\ Len(last'.calls) > 1]_vars

(* C5: an entry of env.passwords is never changed or removed, a bind to an
   address that has one issues no change_password, and no address sees more
   than one change_password. *)
C5_CredentialCachedOnce ==
    [][\A a \in Addrs :
          /\ HostString(a) \in DOMAIN passwords =>
                /\ HostString(a) \in DOMAIN passwords'
                /\ passwords'[HostString(a)] = passwords[HostString(a)]
                /\ pwChanges'[a] = pwChanges[a]
          /\ pwChanges'[a] <= 1]_vars

C5_Witness ==
    /\ last.op = "herd"
    /\ last.ret = "None"
    /\ last.cached
    /\ box.addr # NoAddr
    /\ pwChanges[box.addr] = 1
    /\ hosts = <<HostString(box.addr)>>

Binds ==
    \/ Ran("herd")
    \/ Ran("birth")
    \/ Ran("make_saltmaster")
    \/ Resumes("make_saltmaster")

(* C6: when a bind returns, the secret cached for the bound address is the
   administrative password of the server that is bound. *)
C6_BoundCredentialIsCurrent ==
    [][(/\ Binds
        /\ last'.ret \notin {"error", "polling"}
        /\ box'.addr # NoAddr
        /\ box'.id \in DOMAIN servers') =>
          /\ HostString(box'.addr) \in DOMAIN passwords'
          /\ passwords'[HostString(box'.addr)] = servers'[box'.id].pass]_vars

Managed(report) ==
    {Fqdn(report.name)} \cup {Fqdn(report.aliases[i]) : i \in 1 .. Len(report.aliases)}

Requested(report, name) ==
    IF \E i \in 1 .. Len(report.aliases) : Fqdn(report.aliases[i]) = name
    THEN "CNAME" ELSE "A"

RecordsNamed(records, name) == {k \in 1 .. Len(records) : records[k].name = name}

(* C7: when brand(aliases) returns, each name it manages has exactly one
   record, of the requested type, and a record of another type that was
   there before was deleted before the new one was added. *)
C7_OneRecordOfRequestedType ==
    [][(Ran("brand") /\ last'.ret # "error") =>
          \A name \in Managed(last') :
              /\ Cardinality(RecordsNamed(dns', name)) = 1
              /\ \A k \in RecordsNamed(dns', name) :
                    dns'[k].type = Requested(last', name)
              /\ (\E k \in RecordsNamed(dns, name) :
                      dns[k].type # Requested(last', name)) =>
                    \E i, j \in 1 .. Len(last'.calls) :
                        /\ i < j
                        /\ last'.calls[i] = [c |-> "dns.delete", n |-> name[1], t |-> ""]
                        /\ last'.calls[j].c = "dns.add"
                        /\ last'.calls[j].n = name[1]]_vars

(* C8: euthanise(wait=True), confirmed, returns True only after a listing
   taken after the deletion call lacks the node's name, env.boxen being that
   listing. *)
C8_WaitReturnsAfterNodeIsGone ==
    [][(/\ Ran("euthanise") \/ Resumes("euthanise")
        /\ last'.confirm
        /\ last'.wait
        /\ last'.ret = "True") =>
          /\ IssuedInOrder(last', "delete", "list")
          /\ last'.name \notin DOMAIN boxen'
          /\ boxen' = Listing(servers')]_vars

(* C9: euthanise(wait=False), confirmed, on a bound node: the deletion is
   issued, env.boxen has no entry for the name, and True is returned. *)
C9_NoWaitDeletesAndReturnsTrue ==
    [][(/\ Ran("euthanise")
        /\ last'.confirm
        /\ ~last'.wait
        /\ box # NoBox
        /\ box.id \in DOMAIN servers) =>
          /\ Issued(last', "delete")
          /\ box.name \notin DOMAIN boxen'
          /\ last'.ret = "True"]_vars

(* C10: euthanise, declined: no deletion call, env.boxen, env.box and the
   provider's servers as they were, and False returned. *)
C10_DeclinedChangesNothing ==
    [][(Ran("euthanise") /\ ~last'.confirm /\ box # NoBox) =>
          /\ ~Issued(last', "delete")
          /\ last'.ret = "False"
          /\ UNCHANGED <<servers, boxen, box>>]_vars

C10_Witness ==
    /\ last.op = "euthanise"
    /\ ~last.confirm
    /\ last.ret = "False"
    /\ box # NoBox
    /\ box.name \in DOMAIN boxen

====
